---- MODULE Spec2Model ----
(***************************************************************************)
(* Model of the backblaze client library:                                  *)
(*   - the Awaiting (asyncio) and Blocking clients of backblaze/__init__.py *)
(*     with their authorize() call and background token refresh,           *)
(*   - the multipart upload object AwaitingParts of                        *)
(*     backblaze/bucket/awaiting/part.py.                                  *)
(*                                                                         *)
(* The Awaiting client runs on an asyncio event loop: coroutines run       *)
(* without interruption between two awaits, a task made by create_task or  *)
(* woken by an I/O event is appended to the loop's FIFO ready queue, and   *)
(* the loop runs the head of that queue.  The Blocking client is           *)
(* synchronous: each of its calls is one step.                             *)
(*                                                                         *)
(* The user drives both clients with the same calls and the server gives   *)
(* both the same answer to the same call, so that the two clients can be   *)
(* compared call by call.                                                  *)
(***************************************************************************)
EXTENDS Integers, Sequences, FiniteSets, TLC

\* ---------------------------------------------------------------- bounds
MaxAuthorize == 2  \* authorize() calls the user makes on each client
MaxPosts == 1      \* create_bucket() and buckets() calls the user makes on each
MaxInFlight == 2   \* coroutine calls the user has in flight at once on one object
MaxTasks == 3      \* background refresh tasks the Awaiting client may create

MaxData == 2       \* data() calls made on the AwaitingParts, those of file() included
MaxOther == 1      \* list(), copy() and finish() calls made on the AwaitingParts
MaxStart == 1      \* largest part_number an AwaitingParts is constructed with
ChunkSize == 2     \* context.chunk_size, in bytes

MaxDeletes == 2    \* delete() calls made on the BlockingKey

CallIds == 1..(MaxAuthorize + MaxPosts)
DataIds == 1..MaxData
TaskIds == 1..MaxTasks

\* ------------------------------------------------------- server responses
\* Bodies of a 200 answer of b2_authorize_account.
AuthJson ==
    { [status |-> 200, accountId |-> "acc1", authorizationToken |-> "tok1",
       apiUrl |-> "api1", downloadUrl |-> "dl1"],
      [status |-> 200, accountId |-> "acc2", authorizationToken |-> "tok2",
       apiUrl |-> "api2", downloadUrl |-> "dl2"] }

\* An answer whose status makes raise_for_status() raise.
HttpError == [status |-> 401]

LoginResponses == AuthJson \cup {HttpError}

\* Bodies of a 200 answer of b2_create_bucket / entries of b2_list_buckets.
BucketJson ==
    { [status |-> 200, bucketId |-> "b1", bucketName |-> "n1"],
      [status |-> 200, bucketId |-> "b2", bucketName |-> "n2"] }

CreateResponses == BucketJson

ListResponses ==
    { [status |-> 200, buckets |-> <<>>],
      [status |-> 200,
       buckets |-> << [bucketId |-> "b2", bucketName |-> "n2"],
                      [bucketId |-> "b1", bucketName |-> "n1"] >>] }

\* BucketSettings.payload values and bucket type filters the user passes.
Payloads == { [bucketName |-> "n1", bucketType |-> "allPrivate"] }
TypeFilters == { <<"all">> }

None == "none"

\* ------------------------------------------------------------ conversions
\* AuthModel(resp.json()): the response body under the model's field names.
AuthModel(json) ==
    [account_id |-> json.accountId, auth_token |-> json.authorizationToken,
     api_url |-> json.apiUrl, download_url |-> json.downloadUrl]

\* BucketModel(json)
BucketModel(json) ==
    [bucket_id |-> json.bucketId, bucket_name |-> json.bucketName]

\* Base._format_routes(api_url, download_url): the route table built on the
\* two base urls of the login.
FormatRoutes(api_url, download_url) ==
    [bucket_create |-> <<api_url, "b2_create_bucket">>,
     bucket_list   |-> <<api_url, "b2_list_buckets">>,
     key_delete    |-> <<api_url, "b2_delete_key">>,
     download      |-> download_url]

\* The GET of authorize(): self._client.get(self._auth_url, auth=self._auth)
LoginRequest == [method |-> "GET", url |-> "auth_url", auth |-> "auth"]

\* self._post(url=..., json=...)
PostRequest(url, json) == [method |-> "POST", url |-> url, json |-> json]

\* client.bucket(bucket_id): AwaitingBucket(self, id) / BlockingBucket(self, id)
AwaitingBucket(bucket_id) == [context |-> "Awaiting", bucket_id |-> bucket_id]
BlockingBucket(bucket_id) == [context |-> "Blocking", bucket_id |-> bucket_id]

\* ------------------------------------------------------------------ state
VARIABLES
    awaiting,   \* Awaiting: account_id, routes, Authorization header, _running_task
    blocking,   \* Blocking: the same fields, and the Thread objects constructed
    aCalls,     \* the user's coroutine calls on the Awaiting client
    aTasks,     \* the tasks made by asyncio.create_task(__authorize_background())
    ready,      \* the event loop's FIFO ready queue
    aReqs,      \* HTTP requests issued by the Awaiting client, in order
    bReqs,      \* HTTP requests issued by the Blocking client, in order
    bRets,      \* what each Blocking call returned (or "raised"), in order
    nCalls,     \* user calls made so far (on each client)
    aLast,      \* history: <<body>> of the Awaiting client's last successful login
    bLast,      \* history: <<body>> of the Blocking client's last successful login
    aFailed,    \* history: some login of the Awaiting client raised
    aOverlap,   \* history: an Awaiting call was started while another was in flight
    built,      \* the AwaitingParts object has been constructed
    part_number,\* AwaitingParts.part_number
    sha1s,      \* AwaitingParts.sha1s
    dCalls,     \* the data() coroutine calls on the AwaitingParts
    fileCall,   \* the file() coroutine call on the AwaitingParts
    log,        \* upload-url acquisitions and requests of the AwaitingParts, in order
    start,      \* history: the part_number the AwaitingParts was constructed with
    dOverlap,   \* history: a data() was started while another was in flight
    dFailed,    \* history: some data() call raised
    key_id,     \* BlockingKey.key_id, of a key of the Blocking client
    kCalls      \* the delete() calls on the BlockingKey: answer and return

clientVars == <<awaiting, blocking, aCalls, aTasks, ready, aReqs, bReqs, bRets,
                nCalls, aLast, bLast, aFailed, aOverlap>>

partVars == <<built, part_number, sha1s, dCalls, fileCall, log, start,
              dOverlap, dFailed>>

keyVars == <<key_id, kCalls>>

vars == <<awaiting, blocking, aCalls, aTasks, ready, aReqs, bReqs, bRets,
          nCalls, aLast, bLast, aFailed, aOverlap,
          built, part_number, sha1s, dCalls, fileCall, log, start,
          dOverlap, dFailed, key_id, kCalls>>

\* The client before authorize(): no account, routes on no base url, no
\* Authorization header, no refresh task running.
NewClient ==
    [account_id |-> None, routes |-> FormatRoutes(None, None),
     Authorization |-> None, running_task |-> FALSE]

IdleCall == [op |-> None, pc |-> "idle", arg |-> None, resp |-> None, ret |-> None]
NoTask == [pc |-> None, resp |-> None]
IdleData == [pc |-> "idle", by |-> None, data |-> <<>>, sent |-> 0]
IdleFile == [pc |-> "idle", content |-> <<>>, pos |-> 0, call |-> 0]

Init ==
    /\ awaiting = NewClient
    /\ blocking = NewClient @@ [threads |-> 0]
    /\ aCalls = [c \in CallIds |-> IdleCall]
    /\ aTasks = [t \in TaskIds |-> NoTask]
    /\ ready = <<>>
    /\ aReqs = <<>>
    /\ bReqs = <<>>
    /\ bRets = <<>>
    /\ nCalls = 0
    /\ aLast = <<>>
    /\ bLast = <<>>
    /\ aFailed = FALSE
    /\ aOverlap = FALSE
    /\ built = FALSE
    /\ part_number = 0
    /\ sha1s = <<>>
    /\ dCalls = [c \in DataIds |-> IdleData]
    /\ fileCall = IdleFile
    /\ log = <<>>
    /\ start = 0
    /\ dOverlap = FALSE
    /\ dFailed = FALSE
    /\ key_id = None
    /\ kCalls = <<>>

\* The three fields authorize() sets.
AuthState(client) ==
    [account_id |-> client.account_id, routes |-> client.routes,
     Authorization |-> client.Authorization]

\* authorize() that leaves the routes of the earlier login in place.
AuthorizedKeepsRoutes(client, data) ==
    [client EXCEPT !.account_id = data.account_id,
                   !.Authorization = data.auth_token]

\* The fields authorize() sets from the body of a successful login.
Authorized(client, data) ==
    [client EXCEPT !.account_id = data.account_id,
                   !.routes = FormatRoutes(data.api_url, data.download_url),
                   !.Authorization = data.auth_token]

InFlight(c) == aCalls[c].pc \in {"await", "ready"}
TaskAlive(t) == aTasks[t].pc \in {"scheduled", "sleeping", "wake", "get", "ready"}
FreeTasks == {t \in TaskIds : aTasks[t].pc = None}

\* The login requests in a request log.
Logins(reqs) == Cardinality({i \in DOMAIN reqs : reqs[i].method = "GET"})

\* ------------------------------------------------------- Blocking client
\* Blocking.authorize(): one synchronous step.  threading.Thread(target=...)
\* only constructs a Thread object: start() is never called on it, so
\* __authorize_background never runs and _running_task is never set.
BlockingAuthorize(r) ==
    /\ bReqs' = Append(bReqs, LoginRequest)
    /\ IF r = HttpError
       THEN /\ bRets' = Append(bRets, "raised")
            /\ UNCHANGED <<blocking, bLast>>
       ELSE LET data == AuthModel(r) IN
            /\ blocking' = [Authorized(blocking, data) EXCEPT
                              !.threads = IF ~blocking.running_task
                                          THEN @ + 1 ELSE @]
            /\ bRets' = Append(bRets, data)
            /\ bLast' = <<r>>

\* Blocking.create_bucket(settings)
BlockingCreateBucket(payload, r) ==
    /\ bReqs' = Append(bReqs, PostRequest(blocking.routes.bucket_create, payload))
    /\ bRets' = Append(bRets,
                  <<BucketModel(r), BlockingBucket(BucketModel(r).bucket_id)>>)
    /\ UNCHANGED <<blocking, bLast>>

\* buckets() whose handles are all bound to the first bucket of the answer.
BlockingBucketsFirstId(type, r) ==
    /\ bReqs' = Append(bReqs, PostRequest(blocking.routes.bucket_list,
                                          [bucketTypes |-> type]))
    /\ bRets' = Append(bRets,
                  [i \in DOMAIN r.buckets |->
                      <<BucketModel(r.buckets[i]),
                        BlockingBucket(r.buckets[1].bucketId)>>])
    /\ UNCHANGED <<blocking, bLast>>

\* Blocking.buckets(type), consumed to its end: the pairs it yields.
BlockingBuckets(type, r) ==
    /\ bReqs' = Append(bReqs, PostRequest(blocking.routes.bucket_list,
                                          [bucketTypes |-> type]))
    /\ bRets' = Append(bRets,
                  [i \in DOMAIN r.buckets |->
                      <<BucketModel(r.buckets[i]),
                        BlockingBucket(r.buckets[i].bucketId)>>])
    /\ UNCHANGED <<blocking, bLast>>

\* ------------------------------------------------------- Awaiting client
\* A coroutine call up to its first await: the request is sent and the
\* coroutine waits for the answer r.
AwaitingCall(c, op, arg, req, r) ==
    /\ Cardinality({d \in CallIds : InFlight(d)}) < MaxInFlight
    /\ aCalls' = [aCalls EXCEPT ![c] =
                    [op |-> op, pc |-> "await", arg |-> arg, resp |-> r,
                     ret |-> None]]
    /\ aReqs' = Append(aReqs, req)
    /\ aOverlap' = (aOverlap \/ \E d \in CallIds : InFlight(d))

\* Awaiting.authorize() after `await self._client.get(...)` returned a 200
\* answer with body `data`, on the client, task table and ready queue given:
\* sets the three fields, and makes a refresh task if none is marked running.
AfterLogin(client, tasks, queue, data) ==
    LET free == {t \in TaskIds : tasks[t].pc = None}
        new  == CHOOSE t \in free : \A u \in free : t <= u
    IN  IF ~client.running_task
        THEN [client |-> Authorized(client, data),
              tasks  |-> [tasks EXCEPT ![new] = [pc |-> "scheduled", resp |-> None]],
              queue  |-> Append(queue, <<"task", new>>)]
        ELSE [client |-> Authorized(client, data),
              tasks  |-> tasks,
              queue  |-> queue]

\* The task table has room for the task AfterLogin would make.
RoomForTask == awaiting.running_task \/ FreeTasks # {}

\* ------------------------------------------------------------ user calls
\* The number of calls of the operations `ops` the user has made.
Made(ops) == Cardinality({c \in CallIds : aCalls[c].op \in ops})

\* The user calls authorize() on both clients; the server answers r.
Authorize(r) ==
    /\ Made({"authorize"}) < MaxAuthorize
    /\ nCalls' = nCalls + 1
    /\ BlockingAuthorize(r)
    /\ AwaitingCall(nCalls + 1, "authorize", None, LoginRequest, r)
    /\ UNCHANGED <<awaiting, aTasks, ready, aLast, aFailed>>
    /\ UNCHANGED <<partVars, keyVars>>

\* The user calls create_bucket(settings) on both clients.
CreateBucket(payload, r) ==
    /\ Made({"create_bucket", "buckets"}) < MaxPosts
    /\ awaiting.account_id # None
    /\ nCalls' = nCalls + 1
    /\ BlockingCreateBucket(payload, r)
    /\ AwaitingCall(nCalls + 1, "create_bucket", payload,
                    PostRequest(awaiting.routes.bucket_create, payload), r)
    /\ UNCHANGED <<awaiting, aTasks, ready, aLast, aFailed>>
    /\ UNCHANGED <<partVars, keyVars>>

\* The user iterates buckets(type) on both clients.
Buckets(type, r) ==
    /\ Made({"create_bucket", "buckets"}) < MaxPosts
    /\ awaiting.account_id # None
    /\ nCalls' = nCalls + 1
    /\ BlockingBuckets(type, r)
    /\ AwaitingCall(nCalls + 1, "buckets", type,
                    PostRequest(awaiting.routes.bucket_list,
                                [bucketTypes |-> type]), r)
    /\ UNCHANGED <<awaiting, aTasks, ready, aLast, aFailed>>
    /\ UNCHANGED <<partVars, keyVars>>

\* ------------------------------------------------------------ I/O events
\* The answer to a user call's request arrives: its coroutine becomes ready.
Respond(c) ==
    /\ aCalls[c].pc = "await"
    /\ aCalls' = [aCalls EXCEPT ![c].pc = "ready"]
    /\ ready' = Append(ready, <<"call", c>>)
    /\ UNCHANGED <<awaiting, blocking, aTasks, aReqs, bReqs, bRets, nCalls,
                   aLast, bLast, aFailed, aOverlap>>
    /\ UNCHANGED <<partVars, keyVars>>

\* The answer r to a refresh task's login arrives.
TaskRespond(t, r) ==
    /\ aTasks[t].pc = "get"
    /\ aTasks' = [aTasks EXCEPT ![t] = [pc |-> "ready", resp |-> r]]
    /\ ready' = Append(ready, <<"task", t>>)
    /\ UNCHANGED <<awaiting, blocking, aCalls, aReqs, bReqs, bRets, nCalls,
                   aLast, bLast, aFailed, aOverlap>>
    /\ UNCHANGED <<partVars, keyVars>>

\* asyncio.sleep(self._refresh_seconds) of a refresh task is over.
SleepElapsed(t) ==
    /\ aTasks[t].pc = "sleeping"
    /\ aTasks' = [aTasks EXCEPT ![t].pc = "wake"]
    /\ ready' = Append(ready, <<"task", t>>)
    /\ UNCHANGED <<awaiting, blocking, aCalls, aReqs, bReqs, bRets, nCalls,
                   aLast, bLast, aFailed, aOverlap>>
    /\ UNCHANGED <<partVars, keyVars>>

\* ------------------------------------------- the loop runs the queue head
\* A user's authorize() resumes after its await.
RunAuthorize ==
    /\ ready # <<>>
    /\ Head(ready)[1] = "call"
    /\ LET c == Head(ready)[2]
           r == aCalls[c].resp
       IN  /\ aCalls[c].op = "authorize"
           /\ IF r = HttpError
              THEN /\ aCalls' = [aCalls EXCEPT ![c].pc = "failed",
                                               ![c].ret = "raised"]
                   /\ ready' = Tail(ready)
                   /\ aFailed' = TRUE
                   /\ UNCHANGED <<awaiting, aTasks, aLast>>
              ELSE LET res == AfterLogin(awaiting, aTasks, Tail(ready), AuthModel(r))
                   IN  /\ RoomForTask
                       /\ awaiting' = res.client
                       /\ aTasks' = res.tasks
                       /\ ready' = res.queue
                       /\ aCalls' = [aCalls EXCEPT ![c].pc = "done",
                                                   ![c].ret = AuthModel(r)]
                       /\ aLast' = <<r>>
                       /\ UNCHANGED aFailed
    /\ UNCHANGED <<blocking, aReqs, bReqs, bRets, nCalls, bLast, aOverlap>>
    /\ UNCHANGED <<partVars, keyVars>>

\* A user's create_bucket() or buckets() resumes after `await self._post(...)`.
RunPost ==
    /\ ready # <<>>
    /\ Head(ready)[1] = "call"
    /\ LET c == Head(ready)[2]
           r == aCalls[c].resp
       IN  /\ aCalls[c].op \in {"create_bucket", "buckets"}
           /\ aCalls' = [aCalls EXCEPT
                  ![c].pc = "done",
                  ![c].ret =
                      IF aCalls[c].op = "create_bucket"
                      THEN <<BucketModel(r), AwaitingBucket(BucketModel(r).bucket_id)>>
                      ELSE [i \in DOMAIN r.buckets |->
                              <<BucketModel(r.buckets[i]),
                                AwaitingBucket(r.buckets[i].bucketId)>>]]
    /\ ready' = Tail(ready)
    /\ UNCHANGED <<awaiting, blocking, aTasks, aReqs, bReqs, bRets, nCalls,
                   aLast, bLast, aFailed, aOverlap>>
    /\ UNCHANGED <<partVars, keyVars>>

\* __authorize_background starts: marks itself running and goes to sleep.
TaskStart ==
    /\ ready # <<>>
    /\ Head(ready)[1] = "task"
    /\ LET t == Head(ready)[2]
       IN  /\ aTasks[t].pc = "scheduled"
           /\ awaiting' = [awaiting EXCEPT !.running_task = TRUE]
           /\ aTasks' = [aTasks EXCEPT ![t].pc = "sleeping"]
    /\ ready' = Tail(ready)
    /\ UNCHANGED <<blocking, aCalls, aReqs, bReqs, bRets, nCalls,
                   aLast, bLast, aFailed, aOverlap>>
    /\ UNCHANGED <<partVars, keyVars>>

\* __authorize_background wakes from its sleep and calls authorize(), which
\* sends the login and waits for the answer.
TaskLogin ==
    /\ ready # <<>>
    /\ Head(ready)[1] = "task"
    /\ LET t == Head(ready)[2]
       IN  /\ aTasks[t].pc = "wake"
           /\ aTasks' = [aTasks EXCEPT ![t].pc = "get"]
    /\ aReqs' = Append(aReqs, LoginRequest)
    /\ ready' = Tail(ready)
    /\ UNCHANGED <<awaiting, blocking, aCalls, bReqs, bRets, nCalls,
                   aLast, bLast, aFailed, aOverlap>>
    /\ UNCHANGED <<partVars, keyVars>>

\* The authorize() of __authorize_background resumes, returns, and the task
\* clears the running mark and ends.  If the login raised, the task ends with
\* the exception and the mark stays set.
TaskFinish ==
    /\ ready # <<>>
    /\ Head(ready)[1] = "task"
    /\ LET t == Head(ready)[2]
           r == aTasks[t].resp
       IN  /\ aTasks[t].pc = "ready"
           /\ IF r = HttpError
              THEN /\ aTasks' = [aTasks EXCEPT ![t].pc = "failed"]
                   /\ ready' = Tail(ready)
                   /\ aFailed' = TRUE
                   /\ UNCHANGED <<awaiting, aLast>>
              ELSE LET res == AfterLogin(awaiting, aTasks, Tail(ready), AuthModel(r))
                   IN  /\ RoomForTask
                       /\ awaiting' = [res.client EXCEPT !.running_task = FALSE]
                       /\ aTasks' = [res.tasks EXCEPT ![t].pc = "done"]
                       /\ ready' = res.queue
                       /\ aLast' = <<r>>
                       /\ UNCHANGED aFailed
    /\ UNCHANGED <<blocking, aCalls, aReqs, bReqs, bRets, nCalls, bLast, aOverlap>>
    /\ UNCHANGED <<partVars, keyVars>>

\* ------------------------------------------------------- AwaitingParts
\* Contents the user passes to data(), and contents of the files given to
\* file(): byte strings.
Datas == { <<1>>, <<2, 3>> }
Files == { <<>>, <<1, 2, 3>>, <<1, 2, 3, 1>> }

\* What self._file.upload_url() returns: an UploadUrlModel.
UploadUrls ==
    { [upload_url |-> "url1", authorization_token |-> "up1"],
      [upload_url |-> "url2", authorization_token |-> "up2"] }

\* CopyPartSettings.payload values.
CopyPayloads == { [largeFileId |-> "f2", range |-> "bytes=0-9"] }

\* self._file.file_id
file_id == "f1"

\* str(n) of a small natural number
Str(n) == <<"0", "1", "2", "3", "4", "5", "6", "7", "8", "9">>[n + 1]

\* sha1(data).hexdigest(): a digest, different for different contents.
Sha1(data) == <<"sha1", data>>

\* {**a, **b}: the keys of both, b's value where both have the key.
Merge(a, b) == b @@ a

\* The counter sent as it is.
StartPartRaw(n) == n

\* `self.part_number if self.part_number > 0 else 1` of list() and copy()
StartPart(n) == IF n > 0 THEN n ELSE 1

DataInFlight(c) == dCalls[c].pc \in {"upload_url", "post"}
FreeData == {c \in DataIds : dCalls[c].pc = "idle"}
NewData == CHOOSE c \in FreeData : \A d \in FreeData : c <= d
Others == {i \in DOMAIN log : log[i].kind \in {"list", "copy", "finish"}}

\* BasePart.__init__(file, context, part_number): the counter given, an
\* empty hash list.
NewParts(n) ==
    /\ ~built
    /\ built' = TRUE
    /\ part_number' = n
    /\ sha1s' = <<>>
    /\ start' = n
    /\ UNCHANGED <<dCalls, fileCall, log, dOverlap, dFailed>>
    /\ UNCHANGED <<clientVars, keyVars>>

\* list(limit), iterated: one request; nothing of the object is written.
List(limit) ==
    /\ built
    /\ Cardinality(Others) < MaxOther
    /\ log' = Append(log,
                [kind |-> "list", url |-> "list_parts", include_account |-> FALSE,
                 json |-> [fileId |-> file_id,
                           startPartNumber |-> StartPart(part_number),
                           maxPartCount |-> limit]])
    /\ UNCHANGED <<built, part_number, sha1s, dCalls, fileCall, start,
                   dOverlap, dFailed>>
    /\ UNCHANGED <<clientVars, keyVars>>

\* copy(settings): one request; nothing of the object is written.
Copy(payload) ==
    /\ built
    /\ Cardinality(Others) < MaxOther
    /\ log' = Append(log,
                [kind |-> "copy", url |-> "copy_part", include_account |-> FALSE,
                 json |-> Merge([sourceFileId |-> file_id,
                                 partNumber |-> StartPart(part_number)],
                                payload)])
    /\ UNCHANGED <<built, part_number, sha1s, dCalls, fileCall, start,
                   dOverlap, dFailed>>
    /\ UNCHANGED <<clientVars, keyVars>>

\* finish(): one request carrying the hash list; nothing is written.
Finish ==
    /\ built
    /\ Cardinality(Others) < MaxOther
    /\ log' = Append(log,
                [kind |-> "finish", url |-> "finish_large",
                 include_account |-> FALSE,
                 json |-> [fileId |-> file_id, partSha1Array |-> sha1s]])
    /\ UNCHANGED <<built, part_number, sha1s, dCalls, fileCall, start,
                   dOverlap, dFailed>>
    /\ UNCHANGED <<clientVars, keyVars>>

\* data(data) up to `await self._file.upload_url()`: the counter is
\* incremented and the coroutine waits for the upload url.
DataCall(c, data, by) ==
    /\ Cardinality({d \in DataIds : DataInFlight(d)}) < MaxInFlight
    /\ part_number' = part_number + 1
    /\ dCalls' = [dCalls EXCEPT ![c] =
                    [pc |-> "upload_url", by |-> by, data |-> data, sent |-> 0]]
    /\ dOverlap' = (dOverlap \/ \E d \in DataIds : DataInFlight(d))

\* The part-upload request numbered from 0.
PartRequestZeroBased(c, data, number, sha1_str, upload) ==
    [kind |-> "part", call |-> c,
     headers |-> [ContentLength |-> Str(Len(data)),
                  XBzPartNumber |-> Str(number - 1),
                  XBzContentSha1 |-> sha1_str,
                  Authorization |-> upload.authorization_token],
     include_account |-> FALSE,
     url |-> upload.upload_url,
     data |-> data]

\* The part-upload request carrying the digest of an empty body.
PartRequestEmptyDigest(c, data, number, sha1_str, upload) ==
    [kind |-> "part", call |-> c,
     headers |-> [ContentLength |-> Str(Len(data)),
                  XBzPartNumber |-> Str(number),
                  XBzContentSha1 |-> Sha1(<<>>),
                  Authorization |-> upload.authorization_token],
     include_account |-> FALSE,
     url |-> upload.upload_url,
     data |-> data]

\* The part-upload request sent with the client's own Authorization header.
PartRequestClientAuth(c, data, number, sha1_str, upload) ==
    [kind |-> "part", call |-> c,
     headers |-> [ContentLength |-> Str(Len(data)),
                  XBzPartNumber |-> Str(number),
                  XBzContentSha1 |-> sha1_str,
                  Authorization |-> "account_token"],
     include_account |-> FALSE,
     url |-> upload.upload_url,
     data |-> data]

\* The part-upload request of data(): the headers, url and body passed to
\* self.context._post, with the counter as it is when the request is made.
PartRequest(c, data, number, sha1_str, upload) ==
    [kind |-> "part", call |-> c,
     headers |-> [ContentLength |-> Str(Len(data)),
                  XBzPartNumber |-> Str(number),
                  XBzContentSha1 |-> sha1_str,
                  Authorization |-> upload.authorization_token],
     include_account |-> FALSE,
     url |-> upload.upload_url,
     data |-> data]

\* The user calls data(data).
Data(data) ==
    /\ built
    /\ FreeData # {}
    /\ DataCall(NewData, data, "user")
    /\ UNCHANGED <<built, sha1s, fileCall, log, start, dFailed>>
    /\ UNCHANGED <<clientVars, keyVars>>

\* upload_url() returns `upload` to data(): the hash is computed and
\* appended, and the part is posted to the url just acquired.
UploadUrlReturns(c, upload) ==
    /\ dCalls[c].pc = "upload_url"
    /\ LET sha1_str == Sha1(dCalls[c].data)
       IN  /\ sha1s' = Append(sha1s, sha1_str)
           /\ log' = log \o
                << [kind |-> "upload_url", call |-> c,
                    upload_url |-> upload.upload_url,
                    authorization_token |-> upload.authorization_token],
                   PartRequest(c, dCalls[c].data, part_number, sha1_str, upload) >>
    /\ dCalls' = [dCalls EXCEPT ![c].pc = "post", ![c].sent = part_number]
    /\ UNCHANGED <<built, part_number, fileCall, start, dOverlap, dFailed>>
    /\ UNCHANGED <<clientVars, keyVars>>

\* A data() call raises, out of upload_url() or out of the part's _post; a
\* file() waiting for it raises with it.
DataRaises(c) ==
    /\ DataInFlight(c)
    /\ dCalls' = [dCalls EXCEPT ![c].pc = "failed"]
    /\ dFailed' = TRUE
    /\ fileCall' = IF dCalls[c].by = "file"
                   THEN [fileCall EXCEPT !.pc = "failed"] ELSE fileCall
    /\ UNCHANGED <<built, part_number, sha1s, log, start, dOverlap>>
    /\ UNCHANGED <<clientVars, keyVars>>

\* The part's _post returns: data() returns the PartModel; a file() waiting
\* for it goes on to read its next chunk.
PostReturns(c) ==
    /\ dCalls[c].pc = "post"
    /\ dCalls' = [dCalls EXCEPT ![c].pc = "done"]
    /\ fileCall' = IF dCalls[c].by = "file"
                   THEN [fileCall EXCEPT !.pc = "read"] ELSE fileCall
    /\ UNCHANGED <<built, part_number, sha1s, log, start, dOverlap, dFailed>>
    /\ UNCHANGED <<clientVars, keyVars>>

\* The user calls file(pathway) on a file of the given content: the file is
\* opened.
File(content) ==
    /\ built
    /\ fileCall.pc = "idle"
    /\ fileCall' = [pc |-> "read", content |-> content, pos |-> 0, call |-> 0]
    /\ UNCHANGED <<built, part_number, sha1s, dCalls, log, start, dOverlap, dFailed>>
    /\ UNCHANGED <<clientVars, keyVars>>

\* file() that stops at a chunk shorter than chunk_size.
FileReadDropsShortChunk ==
    /\ fileCall.pc = "read"
    /\ LET content == fileCall.content
           last  == fileCall.pos + ChunkSize
       IN  IF last > Len(content)
           THEN /\ fileCall' = [fileCall EXCEPT !.pc = "done"]
                /\ UNCHANGED <<part_number, dCalls, dOverlap>>
           ELSE /\ FreeData # {}
                /\ DataCall(NewData, SubSeq(content, fileCall.pos + 1, last), "file")
                /\ fileCall' = [fileCall EXCEPT !.pc = "data", !.pos = last,
                                                !.call = NewData]
    /\ UNCHANGED <<built, sha1s, log, start, dFailed>>
    /\ UNCHANGED <<clientVars, keyVars>>

\* Reader yields the next chunk of at most chunk_size bytes and file() calls
\* data(chunk) on it; at the end of the file, file() returns.
FileRead ==
    /\ fileCall.pc = "read"
    /\ LET content == fileCall.content
           last  == IF fileCall.pos + ChunkSize < Len(content)
                    THEN fileCall.pos + ChunkSize ELSE Len(content)
           chunk == SubSeq(content, fileCall.pos + 1, last)
       IN  IF chunk = <<>>
           THEN /\ fileCall' = [fileCall EXCEPT !.pc = "done"]
                /\ UNCHANGED <<part_number, dCalls, dOverlap>>
           ELSE /\ FreeData # {}
                /\ DataCall(NewData, chunk, "file")
                /\ fileCall' = [fileCall EXCEPT !.pc = "data", !.pos = last,
                                                !.call = NewData]
    /\ UNCHANGED <<built, sha1s, log, start, dFailed>>
    /\ UNCHANGED <<clientVars, keyVars>>

PartNext ==
    \/ \E n \in 0..MaxStart : NewParts(n)
    \/ List(100)
    \/ \E p \in CopyPayloads : Copy(p)
    \/ Finish
    \/ \E d \in Datas : Data(d)
    \/ \E c \in DataIds, u \in UploadUrls : UploadUrlReturns(c, u)
    \/ \E c \in DataIds : DataRaises(c)
    \/ \E c \in DataIds : PostReturns(c)
    \/ \E f \in Files : File(f)
    \/ FileRead

PartSpec == Init /\ [][PartNext]_vars


\* ======================================================= AwaitingParts claims
\* The part-upload requests made so far, in order.
IsPart(e) == e.kind = "part"
Parts == SelectSeq(log, IsPart)

\* data() calls were made one after another, each awaited to success, on an
\* AwaitingParts whose counter started at 0.
Sequential == built /\ start = 0 /\ ~dOverlap /\ ~dFailed
NoDataInFlight == \A c \in DataIds : ~DataInFlight(c)

\* The step appends one request of list(), copy() or finish() to the log.
OtherStep ==
    /\ Len(log') = Len(log) + 1
    /\ log'[Len(log')].kind \in {"list", "copy", "finish"}

\* C4: when the counter starts at 0 and the data() calls are made one after
\* another, each awaited to success, the k-th call sends X-Bz-Part-Number k:
\* the numbers sent are 1, 2, ..., n.
C4_SequentialNumbers ==
    Sequential =>
        \A k \in DOMAIN Parts :
            /\ Parts[k].call = k
            /\ Parts[k].headers.XBzPartNumber = Str(k)

C4_Witness == Sequential /\ Len(Parts) >= 2

\* C5: after n successful sequential data() calls on a fresh AwaitingParts,
\* finish() sends the file's id and a partSha1Array of length n whose i-th
\* entry is the X-Bz-Content-Sha1 sent with the part numbered i.
C5_FinishMatchesParts ==
    [][ (Sequential /\ NoDataInFlight /\ OtherStep
            /\ log'[Len(log')].kind = "finish") =>
        LET json == log'[Len(log')].json
            n == Cardinality({c \in DataIds : dCalls[c].pc = "done"})
        IN  /\ json.fileId = file_id
            /\ Len(json.partSha1Array) = n
            /\ \A i \in 1..n :
                 \E k \in DOMAIN Parts :
                    /\ Parts[k].headers.XBzPartNumber = Str(i)
                    /\ Parts[k].headers.XBzContentSha1 = json.partSha1Array[i]
      ]_vars

C5_Witness ==
    /\ Sequential /\ NoDataInFlight
    /\ log # <<>>
    /\ log[Len(log)].kind = "finish"
    /\ Len(log[Len(log)].json.partSha1Array) = 2
    /\ log[Len(log)].json.partSha1Array[1] # log[Len(log)].json.partSha1Array[2]

\* C6: every part-upload request is preceded, within the same data() call,
\* by an upload-url acquisition, and goes to the url of that acquisition with
\* its authorization token as Authorization header, without the account id.
C6_PartUsesAcquiredUrl ==
    \A i \in DOMAIN log :
        log[i].kind = "part" =>
            /\ log[i].include_account = FALSE
            /\ \E j \in 1..(i - 1) :
                  /\ log[j].kind = "upload_url"
                  /\ log[j].call = log[i].call
                  /\ log[j].upload_url = log[i].url
                  /\ log[j].authorization_token = log[i].headers.Authorization

C6_Witness ==
    /\ Len(Parts) >= 2
    /\ Parts[1].url # Parts[2].url

\* The chunks Reader yields of a content: consecutive pieces of chunk_size
\* bytes, the last one shorter when the length is no multiple.
NumChunks(content) == (Len(content) + ChunkSize - 1) \div ChunkSize
Chunk(content, i) ==
    SubSeq(content, (i - 1) * ChunkSize + 1,
           IF i * ChunkSize < Len(content) THEN i * ChunkSize ELSE Len(content))
OnlyFileCalls == \A c \in DataIds : dCalls[c].by # "user"

\* C8: file() calls data() once per chunk, in file order, each call awaited
\* before the next chunk is read; when file() has returned on a fresh
\* AwaitingParts for a file of n chunks, the counter is n and the hash list
\* holds the n chunk hashes in file order.
C8_FileUploadsChunks ==
    /\ Cardinality({c \in DataIds : dCalls[c].by = "file" /\ DataInFlight(c)}) <= 1
    /\ (\E c \in DataIds : dCalls[c].by = "file" /\ DataInFlight(c))
          => fileCall.pc = "data"
    /\ (built /\ start = 0 /\ OnlyFileCalls) =>
          /\ \A k \in DOMAIN Parts : Parts[k].data = Chunk(fileCall.content, k)
          /\ fileCall.pc = "done" =>
                /\ part_number = NumChunks(fileCall.content)
                /\ Len(Parts) = NumChunks(fileCall.content)
                /\ sha1s = [i \in 1..NumChunks(fileCall.content) |->
                              Sha1(Chunk(fileCall.content, i))]

C8_Witness ==
    /\ built /\ start = 0 /\ OnlyFileCalls
    /\ fileCall.pc = "done"
    /\ Len(sha1s) = 2

\* C10: list(), copy() and finish() leave the counter and the hash list
\* unchanged; list() sends as startPartNumber, and copy() as partNumber, the
\* counter when it is greater than 0 and 1 when it is 0: at least 1.
C10_ReadOnlyCalls ==
    [][ OtherStep =>
        LET req == log'[Len(log')]
            expected == IF part_number > 0 THEN part_number ELSE 1
        IN  /\ part_number' = part_number
            /\ sha1s' = sha1s
            /\ req.kind = "list" =>
                 req.json.startPartNumber = expected /\ req.json.startPartNumber >= 1
            /\ req.kind = "copy" =>
                 req.json.partNumber = expected /\ req.json.partNumber >= 1
      ]_vars

C10_Witness ==
    /\ built /\ part_number = 0
    /\ \E i \in DOMAIN log : log[i].kind = "copy" /\ log[i].json.partNumber = 1

\* ----------------------------------------------------------- BlockingKey
\* Application key ids, and bodies of a 200 answer of b2_delete_key.
KeyIds == { "k1", "k2" }
KeyJson ==
    { [status |-> 200, applicationKeyId |-> "k1", keyName |-> "name1"],
      [status |-> 200, applicationKeyId |-> "k2", keyName |-> "name2"] }
DeleteResponses == KeyJson \cup {HttpError}

\* KeyModel(json)
KeyModel(json) == [key_id |-> json.applicationKeyId, key_name |-> json.keyName]

\* @authorize_required: the call goes through on an authorized client.
authorize_required(context) == context.account_id # None

\* The key-delete request sent with the account id added to its body.
KeyDeleteRequestWithAccount(url, id) ==
    [method |-> "POST", url |-> url, json |-> [applicationKeyId |-> id],
     include_account |-> TRUE]

\* self._context._post(url=..., json={"applicationKeyId": ...},
\*                     include_account=False)
KeyDeleteRequest(url, id) ==
    [method |-> "POST", url |-> url, json |-> [applicationKeyId |-> id],
     include_account |-> FALSE]

\* BaseKey.__init__(context, key_id): a key object of the Blocking client.
NewKey(id) ==
    /\ key_id = None
    /\ key_id' = id
    /\ UNCHANGED kCalls
    /\ UNCHANGED <<clientVars, partVars>>

\* The user calls authorize() on the Blocking client of the key.
KeyContextAuthorize(r) ==
    /\ Logins(bReqs) < MaxAuthorize
    /\ BlockingAuthorize(r)
    /\ UNCHANGED <<awaiting, aCalls, aTasks, ready, aReqs, nCalls, aLast,
                   aFailed, aOverlap>>
    /\ UNCHANGED <<partVars, keyVars>>

\* BlockingKey.delete(): one request to the key-delete route; the answer r
\* becomes the KeyModel returned, or _post raises.
Delete(r) ==
    /\ key_id # None
    /\ authorize_required(blocking)
    /\ Len(kCalls) < MaxDeletes
    /\ bReqs' = Append(bReqs, KeyDeleteRequest(blocking.routes.key_delete, key_id))
    /\ kCalls' = Append(kCalls,
                   [resp |-> r,
                    ret |-> IF r = HttpError THEN [raised |-> TRUE]
                            ELSE KeyModel(r)])
    /\ UNCHANGED <<awaiting, blocking, aCalls, aTasks, ready, aReqs, bRets,
                   nCalls, aLast, bLast, aFailed, aOverlap>>
    /\ UNCHANGED key_id
    /\ UNCHANGED partVars

KeyNext ==
    \/ \E id \in KeyIds : NewKey(id)
    \/ \E r \in LoginResponses : KeyContextAuthorize(r)
    \/ \E r \in DeleteResponses : Delete(r)

KeySpec == Init /\ [][KeyNext]_vars

\* C12: BlockingKey.delete() issues exactly one request, to the key-delete
\* route, whose applicationKeyId is the key id of the key object, without the
\* account id; it returns the KeyModel built from the response and does not
\* change the key object's key id.
C12_DeleteOneRequest ==
    [][ Len(kCalls') = Len(kCalls) + 1 =>
        LET req == bReqs'[Len(bReqs')]
            call == kCalls'[Len(kCalls')]
        IN  /\ Len(bReqs') = Len(bReqs) + 1
            /\ SubSeq(bReqs', 1, Len(bReqs)) = bReqs
            /\ req.method = "POST"
            /\ req.url = <<bLast[1].apiUrl, "b2_delete_key">>
            /\ req.json = [applicationKeyId |-> key_id]
            /\ req.include_account = FALSE
            /\ key_id' = key_id
            /\ call.resp.status = 200 =>
                  call.ret = [key_id |-> call.resp.applicationKeyId,
                              key_name |-> call.resp.keyName]
      ]_vars

C12_Witness ==
    /\ Len(kCalls) = 2
    /\ kCalls[2].resp.status = 200
    /\ kCalls[2].ret.key_id # key_id
    /\ Logins(bReqs) = 2

Next ==
    \/ \E r \in LoginResponses : Authorize(r)
    \/ \E p \in Payloads, r \in CreateResponses : CreateBucket(p, r)
    \/ \E ty \in TypeFilters, r \in ListResponses : Buckets(ty, r)
    \/ \E c \in CallIds : Respond(c)
    \/ \E t \in TaskIds, r \in LoginResponses : TaskRespond(t, r)
    \/ \E t \in TaskIds : SleepElapsed(t)
    \/ RunAuthorize
    \/ RunPost
    \/ TaskStart
    \/ TaskLogin
    \/ TaskFinish

Spec == Init /\ [][Next]_vars

\* Fairness: the event loop runs what is ready, sleeps end, and the server
\* answers every request.  The user need not make any call.
LoopStep == RunAuthorize \/ RunPost \/ TaskStart \/ TaskLogin \/ TaskFinish

LiveSpec ==
    /\ Init /\ [][Next]_vars
    /\ WF_vars(LoopStep)
    /\ \A c \in CallIds : WF_vars(Respond(c))
    /\ \A t \in TaskIds : WF_vars(SleepElapsed(t))
    /\ \A t \in TaskIds : WF_vars(\E r \in LoginResponses : TaskRespond(t, r))

\* ============================================================ client claims
\* Logins the Awaiting / Blocking client made that are not the user's
\* authorize() calls.
BgLogins == Logins(aReqs) - Made({"authorize"})
BlockingBgLogins == Logins(bReqs) - Made({"authorize"})

\* C1: in the Awaiting client, as long as every login succeeds, each
\* background re-login is eventually followed by another one, without the
\* user calling authorize() again.
C1_RefreshRepeats == (BgLogins = 1) ~> (BgLogins > 1 \/ aFailed)

\* C2: in the Blocking client, after a successful authorize() the login is
\* eventually performed again without the user calling authorize().
C2_BlockingRefreshRuns == (bLast # <<>>) ~> (BlockingBgLogins > 0)

\* C3: an Awaiting client has at most one background refresh task pending
\* or running at any time.
C3_SingleTimer == Cardinality({t \in TaskIds : TaskAlive(t)}) <= 1

\* C7: for the same sequence of calls and the same answers, Blocking and
\* Awaiting have issued the same requests and hold the same account id,
\* routes and Authorization header after each call.
C7_SameOperations ==
    (~aOverlap /\ \A c \in CallIds : ~InFlight(c)) =>
        /\ aReqs = bReqs
        /\ AuthState(awaiting) = AuthState(blocking)

\* The three fields as the body of a login gives them.
FromBody(json) ==
    [account_id |-> json.accountId,
     routes |-> [bucket_create |-> <<json.apiUrl, "b2_create_bucket">>,
                 bucket_list   |-> <<json.apiUrl, "b2_list_buckets">>,
                 key_delete    |-> <<json.apiUrl, "b2_delete_key">>,
                 download      |-> json.downloadUrl],
     Authorization |-> json.authorizationToken]

\* C9: a client's account id, routes and Authorization header are those of
\* the most recently completed successful login, and each successful
\* authorize() returns the AuthModel of its own response.
C9_LastLoginWins ==
    /\ aLast # <<>> => AuthState(awaiting) = FromBody(aLast[1])
    /\ bLast # <<>> => AuthState(blocking) = FromBody(bLast[1])
    /\ aLast = <<>> => AuthState(awaiting) = AuthState(NewClient)
    /\ bLast = <<>> => AuthState(blocking) = AuthState(NewClient)
    /\ \A c \in CallIds :
          (aCalls[c].op = "authorize" /\ aCalls[c].resp.status = 200) =>
             /\ aCalls[c].pc = "done" =>
                   aCalls[c].ret = [account_id |-> aCalls[c].resp.accountId,
                                    auth_token |-> aCalls[c].resp.authorizationToken,
                                    api_url |-> aCalls[c].resp.apiUrl,
                                    download_url |-> aCalls[c].resp.downloadUrl]
             /\ bRets[c] = [account_id |-> aCalls[c].resp.accountId,
                            auth_token |-> aCalls[c].resp.authorizationToken,
                            api_url |-> aCalls[c].resp.apiUrl,
                            download_url |-> aCalls[c].resp.downloadUrl]

C9_Witness ==
    /\ aLast # <<>> /\ bLast # <<>>
    /\ \E c \in CallIds :
          /\ aCalls[c].op = "authorize" /\ aCalls[c].pc = "done"
          /\ aCalls[c].resp # aLast[1]
    /\ Len(bRets) >= 2
    /\ BgLogins >= 1

\* The bucket calls of both clients returned handles bound to the buckets
\* the server named: call c is the c-th call on either client.
HandlesBound ==
    \A c \in CallIds :
        LET r == aCalls[c].resp
            a == aCalls[c].ret
            b == bRets[c]
        IN  /\ aCalls[c].op = "create_bucket" =>
                /\ b[1].bucket_id = r.bucketId
                /\ b[2] = [context |-> "Blocking", bucket_id |-> r.bucketId]
                /\ aCalls[c].pc = "done" =>
                      /\ a[1].bucket_id = r.bucketId
                      /\ a[2] = [context |-> "Awaiting", bucket_id |-> r.bucketId]
            /\ aCalls[c].op = "buckets" =>
                /\ Len(b) = Len(r.buckets)
                /\ \A i \in DOMAIN r.buckets :
                      /\ b[i][1].bucket_id = r.buckets[i].bucketId
                      /\ b[i][2] = [context |-> "Blocking",
                                    bucket_id |-> r.buckets[i].bucketId]
                /\ aCalls[c].pc = "done" =>
                      /\ Len(a) = Len(r.buckets)
                      /\ \A i \in DOMAIN r.buckets :
                            /\ a[i][1].bucket_id = r.buckets[i].bucketId
                            /\ a[i][2] = [context |-> "Awaiting",
                                          bucket_id |-> r.buckets[i].bucketId]

\* The step is one of a create_bucket() or buckets() call.
BucketCallStep ==
    \E c \in CallIds :
        /\ aCalls'[c].op \in {"create_bucket", "buckets"}
        /\ aCalls'[c] # aCalls[c]

\* C11: create_bucket() returns a handle bound to the bucket id of the
\* response; buckets() yields one (model, handle) pair per bucket of the
\* response, in response order, each handle bound to that bucket's id; none
\* of these calls changes the client's authorization state.
C11_HandlesBoundToBuckets ==
    [][ /\ HandlesBound'
        /\ BucketCallStep =>
              /\ AuthState(awaiting)' = AuthState(awaiting)
              /\ AuthState(blocking)' = AuthState(blocking)
      ]_vars

C11_Witness ==
    \E c \in CallIds :
        /\ aCalls[c].op = "buckets" /\ aCalls[c].pc = "done"
        /\ Len(aCalls[c].ret) = 2 /\ Len(bRets[c]) = 2
        /\ aCalls[c].ret[1][2].bucket_id # aCalls[c].ret[2][2].bucket_id

\* C13: when data() calls on the same AwaitingParts are in flight at once,
\* each sends a different X-Bz-Part-Number, and the hash at position k of
\* the hash list is the hash of the data sent as part k.
C13_DistinctAlignedParts ==
    (built /\ start = 0 /\ ~dFailed /\ dOverlap) =>
        /\ \A i, j \in DOMAIN Parts :
              i # j => Parts[i].headers.XBzPartNumber # Parts[j].headers.XBzPartNumber
        /\ \A k \in DOMAIN sha1s :
              \A i \in DOMAIN Parts :
                 Parts[i].headers.XBzPartNumber = Str(k) =>
                    sha1s[k] = Sha1(Parts[i].data)

====
